---- MODULE Spec2Model ----
(***************************************************************************)
(* Enigma emulator: plugboard, rotors, reflector and the machine that      *)
(* steps the rotors and sends a key press through them.                    *)
(***************************************************************************)
EXTENDS Integers, Sequences, FiniteSets, TLC

(* ------------------------------ core.py -------------------------------- *)

\* ALPHABET = 'ABCDEFGHIJKLMNOPQRSTUVWXYZ', as a sequence of characters.
ALPHABET ==
    <<"A","B","C","D","E","F","G","H","I","J","K","L","M",
      "N","O","P","Q","R","S","T","U","V","W","X","Y","Z">>

\* len(ALPHABET); every index is taken modulo it.
N == 26

Letters == {ALPHABET[i] : i \in 1..N}

\* Lower-case letters, which are no characters of ALPHABET.
LowerCase == {"a", "b"}

\* str.isalpha() for a string of one character: true of the letters of
\* ALPHABET and of the lower-case letters.
isalpha(s) == s \in Letters \cup LowerCase

\* ALPHABET.index(ch), 0-based, tabulated once.
AlphabetIndexTable == [ch \in Letters |-> (CHOOSE i \in 1..N : ALPHABET[i] = ch) - 1]

AlphabetIndex(ch) == AlphabetIndexTable[ch]

\* ALPHABET[idx], 0-based.
AlphabetAt(idx) == ALPHABET[idx + 1]

\* EncodingDict.__init__: every character mapped to itself.
EncodingDict == [ch \in Letters |-> ch]

\* EncodingDict.encode on a dictionary d.
EncodingDict_encode(d, character) == d[character]

\* EncodingDict._getReassignedDict: the keys whose value differs from the key.
ReassignedKeys(d) == {k \in DOMAIN d : d[k] # k}

Reverse(s) == [i \in 1..Len(s) |-> s[Len(s) + 1 - i]]

(* ---------------------------- plugboard.py ----------------------------- *)

\* What PlugLead.__init__(mapping) raises ("None" if it returns). The
\* argument is a string (isstr) or some other object, such as a list, and
\* mapping holds its characters or items.
PlugLead_raises(isstr, mapping) ==
    IF ~isstr THEN "TypeError"
    ELSE IF Len(mapping) # 2 THEN "ValueError"
    ELSE IF \E i \in 1..2 : ~isalpha(mapping[i]) THEN "ValueError"
    ELSE "None"

\* A lead that maps its first letter only (the second assignment left out).
PlugLead_one_way(mapping) == [EncodingDict EXCEPT ![mapping[1]] = mapping[2]]

\* PlugLead.__init__(mapping): mapping is a two-character string; the two
\* assignments are made one after the other.
PlugLead(mapping) ==
    LET d1 == [EncodingDict EXCEPT ![mapping[1]] = mapping[2]]
    IN  [d1 EXCEPT ![mapping[2]] = mapping[1]]

\* Plugboard.add(lead): copy the lead's reassigned entries into the dict.
Plugboard_add(d, lead) ==
    [k \in DOMAIN d |-> IF k \in ReassignedKeys(lead) THEN lead[k] ELSE d[k]]

\* Plugboard.addLead(mapping)
Plugboard_addLead(d, mapping) == Plugboard_add(d, PlugLead(mapping))

\* Plugboard.addLeads(mappings): each mapping in order.
RECURSIVE Plugboard_addLeads(_, _)
Plugboard_addLeads(d, mappings) ==
    IF mappings = <<>> THEN d
    ELSE Plugboard_addLeads(Plugboard_addLead(d, Head(mappings)), Tail(mappings))

\* Plugboard.__init__(leads)
Plugboard(leads) == Plugboard_addLeads(EncodingDict, leads)

(* ------------------------------ rotor.py ------------------------------- *)

\* The notch entry of a catalog rotor without a notch (Python's False).
NoNotch == "False"

\* ROTOR_OPTIONS after the module has merged REFLECTOR_OPTIONS into it.
ROTOR_OPTIONS ==
    "Dummy" :> [mapping_str |-> <<"A","B","C","D","E","F","G","H","I","J","K","L","M","N","O","P","Q","R","S","T","U","V","W","X","Y","Z">>,
              notch |-> "False"] @@
    "Beta" :> [mapping_str |-> <<"L","E","Y","J","V","C","N","I","X","W","P","B","Q","M","D","R","T","A","K","Z","G","F","U","H","O","S">>,
              notch |-> "False"] @@
    "Gamma" :> [mapping_str |-> <<"F","S","O","K","A","N","U","E","R","H","M","B","T","I","Y","C","W","L","Q","P","Z","X","V","G","J","D">>,
              notch |-> "False"] @@
    "I" :> [mapping_str |-> <<"E","K","M","F","L","G","D","Q","V","Z","N","T","O","W","Y","H","X","U","S","P","A","I","B","R","C","J">>,
              notch |-> "Q"] @@
    "II" :> [mapping_str |-> <<"A","J","D","K","S","I","R","U","X","B","L","H","W","T","M","C","Q","G","Z","N","P","Y","F","V","O","E">>,
              notch |-> "E"] @@
    "III" :> [mapping_str |-> <<"B","D","F","H","J","L","C","P","R","T","X","V","Z","N","Y","E","I","W","G","A","K","M","U","S","Q","O">>,
              notch |-> "V"] @@
    "IV" :> [mapping_str |-> <<"E","S","O","V","P","Z","J","A","Y","Q","U","I","R","H","X","L","N","F","T","G","K","D","C","M","W","B">>,
              notch |-> "J"] @@
    "V" :> [mapping_str |-> <<"V","Z","B","R","G","I","T","Y","U","P","S","D","N","H","L","X","A","W","M","J","Q","O","F","E","C","K">>,
              notch |-> "Z"] @@
    "A" :> [mapping_str |-> <<"E","J","M","Z","A","L","Y","X","V","B","W","F","C","R","Q","U","O","N","T","S","P","I","K","H","G","D">>,
              notch |-> "False"] @@
    "B" :> [mapping_str |-> <<"Y","R","U","H","Q","S","L","D","P","X","N","G","O","K","M","I","E","B","F","Z","C","W","V","J","A","T">>,
              notch |-> "False"] @@
    "C" :> [mapping_str |-> <<"F","V","P","J","I","A","O","Y","E","D","R","Z","X","W","G","C","T","K","U","Q","S","B","N","M","H","L">>,
              notch |-> "False"]

REFLECTOR_OPTIONS ==
    "A" :> ROTOR_OPTIONS["A"] @@
    "B" :> ROTOR_OPTIONS["B"] @@
    "C" :> ROTOR_OPTIONS["C"]

\* Rotor.__init__(name) with the default position 0 and ring setting 0,
\* reading the module's dictionary as it is when the rotor is made: the two
\* tables are dictionaries of the instance, filled letter by letter.
Rotor_in(options, name) ==
    LET mapping_str == options[name].mapping_str
    IN  [name          |-> name,
         position      |-> 0,
         num_rotations |-> 0,
         ring_offset   |-> 0,
         right |-> [ch \in Letters |-> mapping_str[AlphabetIndex(ch) + 1]],
         left  |-> [ch \in Letters |->
                      ALPHABET[CHOOSE i \in 1..N : mapping_str[i] = ch]],
         notch |-> options[name].notch]

\* The module's dictionary handing its entry to the rotors made from it, so
\* that a write to a rotor's table shows in the dictionary.
ROTOR_OPTIONS_shared(options, rotor) ==
    [options EXCEPT ![rotor.name].mapping_str =
        [i \in 1..N |-> rotor.right[ALPHABET[i]]]]

\* The module's dictionary after a write to the tables of a rotor made from
\* it: Rotor.__init__ fills new dictionaries from the entry's string, so
\* the write stays in the instance.
ROTOR_OPTIONS_after(options, rotor) == options

\* Rotor.__init__(name) while the module's dictionary is as it was loaded.
Rotor(name) == Rotor_in(ROTOR_OPTIONS, name)

rotor_from_name(name) == Rotor(name)

\* _shift_in adding the ring offset instead of taking it off.
shift_in_ring_added(self, ch) ==
    AlphabetAt((AlphabetIndex(ch) + self.position + self.ring_offset) % N)

\* Rotor._shift_in
shift_in(self, ch) ==
    AlphabetAt((AlphabetIndex(ch) + self.position - self.ring_offset) % N)

\* _unshift_out without the ring offset.
unshift_out_no_ring(self, ch) ==
    AlphabetAt((AlphabetIndex(ch) - self.position) % N)

\* Rotor._unshift_out
unshift_out(self, ch) ==
    AlphabetAt((AlphabetIndex(ch) - self.position + self.ring_offset) % N)

\* Rotor.encode_right_to_left
encode_right_to_left(self, ch) ==
    unshift_out(self, self.right[shift_in(self, ch)])

\* encode_left_to_right reading the right table instead of its inverse.
encode_left_to_right_same_table(self, ch) ==
    AlphabetAt((AlphabetIndex(self.right[
        AlphabetAt((AlphabetIndex(ch) + self.position - self.ring_offset) % N)])
        - self.position + self.ring_offset) % N)

\* Rotor.encode_left_to_right
encode_left_to_right(self, ch) ==
    unshift_out(self, self.left[shift_in(self, ch)])

isNotched(self) == self.notch # NoNotch

getPosition(self) == AlphabetAt(self.position)

getNotch(self) == self.notch

\* Rotor.isAtNotch
isAtNotch(self) == isNotched(self) /\ getPosition(self) = getNotch(self)

\* A rotation that carries the ring along with the rotor.
rotate_with_ring(self) ==
    [self EXCEPT !.position = (self.position + 1) % N,
                 !.num_rotations = self.num_rotations + 1,
                 !.ring_offset = (self.ring_offset + 1) % N]

\* Rotor.rotate() (update_dicts is never passed, so the tables stay)
rotate(self) ==
    [self EXCEPT !.position = (self.position + 1) % N,
                 !.num_rotations = self.num_rotations + 1]

\* Rotor.rotateToPosition(target) for a target in range(26): rotate until
\* the position equals the target.
RECURSIVE rotateToPosition(_, _)
rotateToPosition(self, target) ==
    IF self.position = target THEN self
    ELSE rotateToPosition(rotate(self), target)

\* The decimal digits, and f"{n:02d}" for a number of one or two digits.
Digit == <<"0", "1", "2", "3", "4", "5", "6", "7", "8", "9">>

format_02d(n) == Digit[(n \div 10) + 1] \o Digit[(n % 10) + 1]

\* Rotor.getRingOffset: the ring setting as a numeral, counted from 01.
getRingOffset(self) == format_02d(self.ring_offset + 1)

\* Rotor.setRingOffset(ring_setting) for an int
setRingOffset(self, ring_setting) == [self EXCEPT !.ring_offset = ring_setting]

\* Reflector(name): Rotor.__init__ runs unchanged; rotate() is overridden.
Reflector(name) == Rotor(name)

\* Reflector.rotate: nothing happens.
Reflector_rotate(self) == self

\* Reflector.add copying the whole dictionary of the lead, not its
\* reassigned entries.
Reflector_add_whole(self, lead) == [self EXCEPT !.right = lead]

\* Reflector.add writing the lead's entries into both tables.
Reflector_add_both(self, lead) ==
    [self EXCEPT
        !.right = [k \in Letters |-> IF k \in ReassignedKeys(lead) THEN lead[k]
                                                                  ELSE self.right[k]],
        !.left  = [k \in Letters |-> IF k \in ReassignedKeys(lead) THEN lead[k]
                                                                  ELSE self.left[k]]]

\* Reflector.add(lead): the lead's reassigned entries go into the right table.
Reflector_add(self, lead) ==
    [self EXCEPT !.right =
        [k \in Letters |-> IF k \in ReassignedKeys(lead) THEN lead[k]
                                                        ELSE self.right[k]]]

\* Plugboard.addLeads as inherited by Reflector (add is Reflector.add).
RECURSIVE Reflector_addLeads(_, _)
Reflector_addLeads(self, mappings) ==
    IF mappings = <<>> THEN self
    ELSE Reflector_addLeads(Reflector_add(self, PlugLead(Head(mappings))),
                            Tail(mappings))

\* swapLeads handing the two start points to addLeads as a lead of their
\* own, without looking up where they lead.
swapLeads_direct(self, start_points) ==
    Reflector_addLeads(self, <<start_points>>)

\* Reflector.swapLeads(start_points)
swapLeads(self, start_points) ==
    LET end_points == [i \in 1..Len(start_points) |-> self.right[start_points[i]]]
        pairs == [i \in 1..Len(start_points) |->
                     <<start_points[i], Reverse(end_points)[i]>>]
    IN  Reflector_addLeads(self, pairs)

\* Reflector.makeSwaps(pairs): swapLeads for each pair in order.
RECURSIVE makeSwaps(_, _)
makeSwaps(self, pairs) ==
    IF pairs = <<>> THEN self
    ELSE makeSwaps(swapLeads(self, Head(pairs)), Tail(pairs))

(* ----------------------------- machine.py ------------------------------ *)

\* int(position) for the numerals used as settings.
IntOf ==
    "00" :> 0 @@ "01" :> 1 @@ "02" :> 2 @@ "03" :> 3 @@ "04" :> 4 @@
    "05" :> 5 @@ "06" :> 6 @@ "07" :> 7 @@ "08" :> 8 @@ "09" :> 9 @@
    "10" :> 10 @@ "11" :> 11 @@ "12" :> 12 @@ "13" :> 13 @@ "14" :> 14 @@
    "15" :> 15 @@ "16" :> 16 @@ "17" :> 17 @@ "18" :> 18 @@ "19" :> 19 @@
    "20" :> 20 @@ "21" :> 21 @@ "22" :> 22 @@ "23" :> 23 @@ "24" :> 24 @@
    "25" :> 25 @@ "26" :> 26 @@ "27" :> 27 @@
    "0" :> 0 @@ "1" :> 1 @@ "2" :> 2 @@ "3" :> 3 @@ "4" :> 4 @@
    "5" :> 5 @@ "6" :> 6 @@ "7" :> 7 @@ "8" :> 8 @@ "9" :> 9

\* Machine.convertPosition
convertPosition(position) ==
    IF isalpha(position) THEN AlphabetIndex(position) ELSE IntOf[position] - 1

\* Machine.addRotorSet(rotors): the names are given left to right and are
\* inserted reversed, so slot 0 (index 1 here) is the rightmost rotor.
addRotorSet_in(options, rotors) ==
    [i \in 1..Len(rotors) |-> Rotor_in(options, Reverse(rotors)[i])]

addRotorSet(rotors) ==
    [i \in 1..Len(rotors) |-> rotor_from_name(Reverse(rotors)[i])]

\* list(entry): the characters of a setting entry, which is one character
\* or a numeral of two digits.
Chars(entry) ==
    IF entry \in {Digit[i] : i \in 1..10} \/ isalpha(entry) THEN <<entry>>
    ELSE <<Digit[(IntOf[entry] \div 10) + 1], Digit[(IntOf[entry] % 10) + 1]>>

\* The entries handleTripletInputs works with for a ring or position
\* setting: a setting of one entry is taken apart into its characters.
SettingEntries(inputs) ==
    IF Len(inputs) = 1 THEN Chars(inputs[1]) ELSE inputs

\* Machine.handleTripletInputs for a ring or position setting: one
\* converted value per entry (the entry count must match num_rotors).
handleTripletInputs(inputs) ==
    [i \in 1..Len(SettingEntries(inputs)) |->
        convertPosition(SettingEntries(inputs)[i])]

\* applySetting giving the first entry to slot 0.
applySetting_unreversed(rotors, setting, ring) ==
    LET values == handleTripletInputs(setting)
    IN  [i \in 1..Len(rotors) |->
            IF ring THEN setRingOffset(rotors[i], values[i])
                    ELSE rotateToPosition(rotors[i], values[i])]

\* Machine.applySetting(setting, ring): the reversed setting is applied slot
\* by slot, by setRingOffset or by rotateToPosition.
applySetting(rotors, setting, ring) ==
    LET values == Reverse(handleTripletInputs(setting))
    IN  [i \in 1..Len(rotors) |->
            IF ring THEN setRingOffset(rotors[i], values[i])
                    ELSE rotateToPosition(rotors[i], values[i])]

\* What Machine.__init__ checks of its arguments before it returns.
Accepted(s) ==
    /\ \A i \in 1..Len(s.rotors) : s.rotors[i] \in DOMAIN ROTOR_OPTIONS
    /\ Len(SettingEntries(s.position_setting)) = Len(s.rotors)
    /\ Len(SettingEntries(s.ring_setting)) = Len(s.rotors)
    /\ \A i \in 1..Len(s.rotors) :
          handleTripletInputs(s.position_setting)[i] \in 0..(N - 1)
    /\ s.reflector \in DOMAIN REFLECTOR_OPTIONS
    /\ \A i \in 1..Len(s.plugboard_mappings) :
          /\ Len(s.plugboard_mappings[i]) = 2
          /\ \A j \in 1..2 : isalpha(s.plugboard_mappings[i][j])

\* Machine.__init__, reading the module's dictionary as it is at the call.
Machine_in(options, s) ==
    LET inserted   == addRotorSet_in(options, s.rotors)
        positioned == applySetting(inserted, s.position_setting, FALSE)
        ringed     == applySetting(positioned, s.ring_setting, TRUE)
    IN  [plugboard  |-> Plugboard(s.plugboard_mappings),
         num_rotors |-> Len(s.rotors),
         rotors     |-> ringed,
         next_rotor |-> 0,
         reflector  |-> makeSwaps(Rotor_in(options, s.reflector),
                                  s.reflector_mapping_swaps)]

\* Machine.__init__ while the module's dictionary is as it was loaded.
Machine(s) == Machine_in(ROTOR_OPTIONS, s)

\* A call Machine(...): given holds the names of the keyword arguments
\* passed, the other fields their values.
Call(given, s) ==
    [given                   |-> given,
     rotors                  |-> s.rotors,
     reflector               |-> s.reflector,
     ring_setting            |-> s.ring_setting,
     position_setting        |-> s.position_setting,
     plugboard_mappings      |-> s.plugboard_mappings,
     reflector_mapping_swaps |-> s.reflector_mapping_swaps]

\* The arguments Machine.__init__ works with: the defaults of its
\* signature and of its body stand for the arguments not passed. (The
\* default of rotors is a list of Rotor objects, see Machine_raises.)
WithDefaults(a) ==
    [rotors           |-> a.rotors,
     reflector        |-> IF "reflector" \in a.given THEN a.reflector
                          ELSE "A",
     ring_setting     |-> IF "ring_setting" \in a.given THEN a.ring_setting
                          ELSE <<"01", "01", "01">>,
     position_setting |-> IF "position_setting" \in a.given
                          THEN a.position_setting ELSE <<"A", "A", "A">>,
     plugboard_mappings |->
         IF "plugboard_mappings" \in a.given THEN a.plugboard_mappings
         ELSE <<>>,
     reflector_mapping_swaps |->
         IF "reflector_mapping_swaps" \in a.given
         THEN a.reflector_mapping_swaps ELSE <<>>]

\* What Machine.__init__ raises for a call ("None" if it returns), in the
\* order of its body: the plugboard is made first; without rotors the list
\* [Rotor("Dummy")] * 3 goes to addRotorSet, where handleTripletInputs
\* finds items that are no strings; then the names, the positions, the ring
\* settings and the reflector are looked at.
Machine_raises(a) ==
    LET s == WithDefaults(a)
    IN  IF \E i \in 1..Len(s.plugboard_mappings) :
               PlugLead_raises(TRUE, s.plugboard_mappings[i]) # "None"
        THEN "ValueError"
        ELSE IF "rotors" \notin a.given THEN "TypeError"
        ELSE IF ~Accepted(s) THEN "ValueError"
        ELSE "None"

\* The rotor in a slot (slot 0 is the rightmost).
getRotor(self, slot) == self.rotors[slot + 1]

\* Stepping decisions as a chain of alternatives, as an odometer, and
\* without the double step.
r0_steps_otherwise(r0_notch, r1_notch) == ~(r0_notch \/ r1_notch)

r1_steps_single(r0_notch, r1_notch) == r0_notch

r1_steps_both(r0_notch, r1_notch) == r0_notch /\ r1_notch

r2_steps_odometer(r0_notch, r1_notch) == r0_notch /\ r1_notch

\* The middle rotor carried by the right one, but held while at its notch.
r1_steps_unless_notched(r0_notch, r1_notch) == r0_notch /\ ~r1_notch

\* rotateRotor's decisions, taken from the notch flags read before any
\* rotor moves.
r0_steps(r0_notch, r1_notch) == TRUE

r1_steps(r0_notch, r1_notch) == r0_notch \/ r1_notch

r2_steps(r0_notch, r1_notch) == r1_notch

\* rotateRotor carrying the notch rule on to every slot above slot 2.
rotateRotor_cascade(self, slot) ==
    IF slot # 0
    THEN [self EXCEPT !.rotors[slot + 1] = rotate(@)]
    ELSE [self EXCEPT !.rotors =
            [i \in 1..Len(self.rotors) |->
                IF \/ i = 1
                   \/ i = 2 /\ (isAtNotch(self.rotors[1]) \/ isAtNotch(self.rotors[2]))
                   \/ i > 2 /\ isAtNotch(self.rotors[i - 1])
                THEN rotate(self.rotors[i])
                ELSE self.rotors[i]]]

\* Machine.rotateRotor(slot) for a valid slot: another slot than 0 rotates
\* that rotor alone; slot 0 steps the three rightmost rotors.
rotateRotor(self, slot) ==
    IF slot # 0
    THEN [self EXCEPT !.rotors[slot + 1] = rotate(@)]
    ELSE LET r0_notch == isAtNotch(getRotor(self, 0))
             r1_notch == isAtNotch(getRotor(self, 1))
         IN  [self EXCEPT !.rotors =
                [i \in 1..Len(self.rotors) |->
                    IF \/ i = 3 /\ r2_steps(r0_notch, r1_notch)
                       \/ i = 2 /\ r1_steps(r0_notch, r1_notch)
                       \/ i = 1 /\ r0_steps(r0_notch, r1_notch)
                    THEN rotate(self.rotors[i])
                    ELSE self.rotors[i]]]

\* pressKey's first loop: right to left through getRotors(), from slot 0.
RECURSIVE throughRightToLeft(_, _, _)
throughRightToLeft(self, slot, signal) ==
    IF slot >= self.num_rotors THEN signal
    ELSE throughRightToLeft(self, slot + 1,
                            encode_right_to_left(getRotor(self, slot), signal))

\* pressKey's second loop: left to right through getRotors(left_to_right),
\* from the highest slot down to slot 0.
RECURSIVE throughLeftToRight(_, _, _)
throughLeftToRight(self, slot, signal) ==
    IF slot < 0 THEN signal
    ELSE throughLeftToRight(self, slot - 1,
                            encode_left_to_right(getRotor(self, slot), signal))

\* The signal path of pressKey once the rotors have (or have not) stepped.
signalPath(self, key) ==
    LET plugged   == EncodingDict_encode(self.plugboard, key)
        leftmost  == throughRightToLeft(self, 0, plugged)
        reflected == encode_right_to_left(self.reflector, leftmost)
        rightmost == throughLeftToRight(self, self.num_rotors - 1, reflected)
    IN  EncodingDict_encode(self.plugboard, rightmost)

\* pressKey stepping the rotors after the signal has passed.
pressKey_step_last(self, key, rotate_first) ==
    [machine |-> IF rotate_first THEN rotateRotor(self, 0) ELSE self,
     signal  |-> signalPath(self, key)]

\* Machine.pressKey(key, rotate_first) for a key of the alphabet: the
\* machine after the press and the letter returned.
pressKey(self, key, rotate_first) ==
    LET stepped == IF rotate_first THEN rotateRotor(self, 0) ELSE self
    IN  [machine |-> stepped, signal |-> signalPath(stepped, key)]

\* pressKey's first test, `key is None or key not in ALPHABET`, for a key of
\* one character: it raises ValueError unless the key is a letter of
\* ALPHABET.
pressKey_raises(key) == IF key \in Letters THEN "None" ELSE "ValueError"

\* The test `key in ALPHABET` for a key given as a string of characters:
\* Python looks for the key as a contiguous piece of ALPHABET, and finds
\* the empty string in it.
in_ALPHABET(key) ==
    \E i \in 0..(N - Len(key)) : \A j \in 1..Len(key) : ALPHABET[i + j] = key[j]

\* What rotateRotor(slot) raises ("None" if it returns): a slot outside the
\* stack is refused; slot 0 looks up self._rotors[1] and self._rotors[2]
\* before it rotates anything.
rotateRotor_raises(self, slot) ==
    IF slot \notin 0..(self.num_rotors - 1) THEN "ValueError"
    ELSE IF slot = 0 /\ self.num_rotors < 3 THEN "IndexError"
    ELSE "None"

\* What EncodingDict.encode(character) raises for a string of characters.
EncodingDict_encode_raises(character) ==
    IF Len(character) # 1 THEN "ValueError"
    ELSE IF ~isalpha(character[1]) THEN "ValueError"
    ELSE IF character[1] \notin Letters THEN "KeyError"
    ELSE "None"

\* Machine.pressKey(key, rotate_first) for a key given as a string of
\* characters: the machine after the call, the letter returned and the
\* exception raised. The statements run in the order of the body: the test
\* of the key, rotateRotor(0), then the plugboard's encode of the key.
pressKey_str(self, key, rotate_first) ==
    IF ~in_ALPHABET(key)
    THEN [machine |-> self, signal |-> "", raised |-> "ValueError"]
    ELSE IF rotate_first /\ rotateRotor_raises(self, 0) # "None"
    THEN [machine |-> self, signal |-> "",
          raised |-> rotateRotor_raises(self, 0)]
    ELSE IF EncodingDict_encode_raises(key) # "None"
    THEN [machine |-> IF rotate_first THEN rotateRotor(self, 0) ELSE self,
          signal  |-> "",
          raised  |-> EncodingDict_encode_raises(key)]
    ELSE [machine |-> pressKey(self, key[1], rotate_first).machine,
          signal  |-> pressKey(self, key[1], rotate_first).signal,
          raised  |-> "None"]

\* The loop of Machine.encode from one character on: pressKey on every
\* character in turn, each result appended to result. An exception of
\* pressKey leaves the loop: the machine keeps the steps made so far and
\* nothing is returned.
RECURSIVE encode_from(_, _, _)
encode_from(self, string, result) ==
    IF string = <<>>
    THEN [machine |-> self, result |-> result, raised |-> "None"]
    ELSE IF pressKey_raises(Head(string)) # "None"
         THEN [machine |-> self, result |-> <<>>,
               raised |-> pressKey_raises(Head(string))]
         ELSE CHOOSE res \in
                  {encode_from(r.machine, Tail(string),
                               Append(result, r.signal)) :
                       r \in {pressKey(self, Head(string), TRUE)}} : TRUE

\* encode passing over the characters that are no letters of ALPHABET.
encode_skipping(self, string) ==
    encode_from(self, SelectSeq(string, LAMBDA ch : ch \in Letters), <<>>)

\* encode working on a copy of the machine, which it throws away.
encode_on_copy(self, string) ==
    [encode_from(self, string, <<>>) EXCEPT !.machine = self]

\* Machine.encode(string): the machine after the call, the string returned
\* and the exception raised ("None" if the call returned).
encode(self, string) == encode_from(self, string, <<>>)

\* Machine.getPositionSetting and Machine.getRingSetting: the entries,
\* leftmost rotor first, of the string that joins them with spaces.
getPositionSetting(self) ==
    [i \in 1..Len(self.rotors) |-> getPosition(Reverse(self.rotors)[i])]

getRingSetting(self) ==
    [i \in 1..Len(self.rotors) |-> getRingOffset(Reverse(self.rotors)[i])]

\* The positions of all rotors, slot 0 first.
Positions(self) == [i \in 1..Len(self.rotors) |-> self.rotors[i].position]

(* ------------------------ settings of the model ------------------------ *)

\* Bounds of the model.
MaxOps == 3

NumKeys == 3

MaxKeyOps == 2

MaxLen == 3

NumTextLetters == 4

NumPlugLetters == 8

MaxLeads == 3

MaxText == 2

NumRewireLetters == 2

MaxOtherOps == 2

MaxCalls == 2

MaxShiftSteps == 1

MaxPositionings == 2

NumTargets == 4

MaxSwaps == 2

NumSwapLetters == 3

NumEncodeLetters == 2

\* The letter one position before a rotor's notch, and the positions a
\* rotor starts from in the stepping settings: around its notch, or around
\* the wrap from Z to A for a rotor without a notch.
BeforeNotch(name) ==
    AlphabetAt((AlphabetIndex(ROTOR_OPTIONS[name].notch) - 1) % N)

StartLetters(name) ==
    IF ROTOR_OPTIONS[name].notch = NoNotch THEN {"Y", "Z"}
    ELSE {BeforeNotch(name), ROTOR_OPTIONS[name].notch}

Settings(rotors, reflector, ring, position, plugs, swaps) ==
    [rotors                  |-> rotors,
     reflector               |-> reflector,
     ring_setting            |-> ring,
     position_setting        |-> position,
     plugboard_mappings      |-> plugs,
     reflector_mapping_swaps |-> swaps]

\* Rotor stacks, named left to right.
Stacks3 == {<<"I", "II", "III">>, <<"Beta", "Gamma", "V">>, <<"V", "II", "IV">>}

Stacks4 == {<<"I", "II", "III", "IV">>, <<"Beta", "I", "II", "III">>}

\* Settings that start every rotor at or just before its notch.
SteppingSettings ==
    UNION {{Settings(st, "B", <<"01", "01", "01">>, <<a, b, c>>, <<>>, <<>>) :
               a \in StartLetters(st[1]), b \in StartLetters(st[2]),
               c \in StartLetters(st[3])} : st \in Stacks3}
    \cup
    UNION {{Settings(st, "C", <<"01", "26", "01", "02">>, <<a, b, c, d>>,
                     <<>>, <<>>) :
               a \in StartLetters(st[1]), b \in StartLetters(st[2]),
               c \in StartLetters(st[3]), d \in StartLetters(st[4])} :
           st \in Stacks4}

\* Reflector rewirings given to the constructor: none, two swaps of
\* unrelated letters, a swap of two letters the reflector already pairs,
\* and two swaps that share a letter.
SwapChoices ==
    {<<>>,
     <<<<"A", "B">>, <<"C", "D">>>>,
     <<<<"A", "E">>>>,
     <<<<"Q", "Z">>, <<"Q", "A">>>>}

\* Full settings as the scripts use them, and one with the identity rotor,
\* a reflector wiring used as a rotor and ring settings outside 01..26.
CipherSettings ==
    {Settings(<<"Beta", "Gamma", "V">>, refl, <<"04", "02", "14">>,
              <<"M", "J", "M">>,
              <<<<"K", "I">>, <<"X", "N">>, <<"F", "L">>>>, <<>>) :
        refl \in DOMAIN REFLECTOR_OPTIONS}
    \cup
    {Settings(<<"V", "II", "IV">>, refl, <<"06", "18", "07">>,
              <<"A", "J", "L">>,
              <<<<"U", "G">>, <<"I", "E">>, <<"P", "O">>, <<"N", "X">>,
                <<"W", "T">>>>, sw) :
        refl \in DOMAIN REFLECTOR_OPTIONS, sw \in SwapChoices}
    \cup
    {Settings(<<"Beta", "I", "II", "III">>, "B", <<"23", "02", "10", "A">>,
              <<"U", "A", "D", "U">>,
              <<<<"V", "H">>, <<"P", "T">>, <<"Z", "G">>>>, sw) :
        sw \in SwapChoices}
    \cup
    {Settings(<<"Dummy", "A", "III">>, "C", <<"27", "00", "Z">>,
              <<"26", "E", "V">>,
              <<<<"A", "Z">>, <<"M", "N">>>>, <<<<"F", "A">>>>)}

SettingsSet == {s \in SteppingSettings \cup CipherSettings : Accepted(s)}

\* The plaintext letters of the round-trip runs, spread over the alphabet.
TextLetters == {AlphabetAt((7 * i) % N) : i \in 0..(NumTextLetters - 1)}

\* The keys pressed on the machine, spread over the alphabet.
Keys == {AlphabetAt((11 * i) % N) : i \in 0..(NumKeys - 1)}

\* The characters of the strings given to encode: letters spread over the
\* alphabet, and characters that are no upper-case letter.
EncodeLetters == {AlphabetAt((5 * i + 3) % N) : i \in 0..(NumEncodeLetters - 1)}

OtherChars == {"a", "1"}

\* The strings over a set of characters, up to a length.
Strings(chars, n) == UNION {[1..k -> chars] : k \in 0..n}

\* Settings of the machines that encode whole strings: the full settings,
\* and the stack I II III around its notches.
EncodeSettings ==
    {s \in SettingsSet :
        s \in CipherSettings \/ s.rotors = <<"I", "II", "III">>}

\* The letters the reflector of a machine in use is rewired at.
RewireLetters == {ALPHABET[i] : i \in 1..NumRewireLetters}

\* The letters typed on the machines made while other machines are in use.
PurityLetters == {"D", "I"}

\* Settings of the machines made while other machines are in use.
PuritySettings ==
    {Settings(<<"I", "II", "III">>, r, <<"01", "01", "01">>,
              <<"A", "A", "Z">>, <<<<"H", "L">>>>, sw) :
        r \in DOMAIN REFLECTOR_OPTIONS, sw \in {<<>>, <<<<"A", "E">>>>}}

\* Calls of the constructor: stacks of catalog rotors, of reflector
\* entries and of a name that is no entry, with reflectors, positions and
\* ring settings that are and are not acceptable; calls that leave
\* arguments to their defaults; and the call without arguments.
ConstructNames == {"I", "Dummy", "A", "C", "VI"}

AllArguments ==
    {"rotors", "reflector", "ring_setting", "position_setting",
     "plugboard_mappings", "reflector_mapping_swaps"}

Calls ==
    {Call(AllArguments,
          Settings(<<a, b, c>>, r, <<"01", "01", "01">>, p, <<>>, <<>>)) :
        a \in ConstructNames, b \in ConstructNames, c \in ConstructNames,
        r \in {"A", "B", "I", "Dummy", "D"},
        p \in {<<"A", "Q", "Z">>, <<"A", "A">>, <<"27", "A", "A">>}}
    \cup
    {Call(given, Settings(<<"I", "II", "III">>, "B", <<"02", "01", "01">>,
                          <<"A", "A", "B">>, <<<<"A", "B">>>>, <<>>)) :
        given \in SUBSET AllArguments}
    \cup
    {Call({}, Settings(<<>>, "", <<>>, <<>>, <<>>, <<>>))}

\* Arguments of PlugLead: strings and lists of up to three characters.
LeadChars == RewireLetters \cup OtherChars

LeadArguments == Strings(LeadChars, 3)

\* The letters the reflector is rewired at when it is rewired alone (every
\* fourth letter: reflector A joins A and E), and the lists of pairs given
\* to makeSwaps.
SwapLetters == {AlphabetAt((4 * i) % N) : i \in 0..(NumSwapLetters - 1)}

SwapLists ==
    SwapChoices \cup
    {<<<<a, b>>, <<b, c>>>> : a \in RewireLetters, b \in RewireLetters,
                              c \in RewireLetters}

\* Settings that put the right rotor at every position with every ring
\* setting.
ShiftSettings ==
    {Settings(<<"I", "II", "III">>, "B", <<"01", "01", format_02d(r)>>,
              <<"A", "A", AlphabetAt(p)>>, <<>>, <<>>) :
        r \in 1..N, p \in 0..(N - 1)}

\* Targets handed to rotateToPosition and positions handed to Reflector():
\* 0, 9, 18, 1, ...
Targets == {(9 * i) % N : i \in 0..(NumTargets - 1)}

\* Keys handed to pressKey as strings: no character, one or two.
KeyChars == {"A", "B", "D", "a"}

KeyStrings == Strings(KeyChars, 2)

\* Settings of machines of one, two and three rotors. A machine of one
\* rotor needs its settings as one character each.
CallSettings ==
    {s \in
        {Settings(<<"I">>, "B", <<ring>>, <<pos>>, <<>>, <<>>) :
            ring \in {"1", "B", "01"}, pos \in {"A", "Q"}}
        \cup
        {Settings(<<"I", "II">>, "B", <<"01", "02">>, <<a, b>>,
                  <<<<"A", "M">>>>, <<>>) :
            a \in {"A", "Q"}, b \in {"D", "E"}}
        \cup
        {Settings(<<"I", "II", "III">>, "B", <<"01", "01", "01">>,
                  <<"A", a, b>>, <<>>, <<>>) :
            a \in {"D", "E"}, b \in {"U", "V"}} :
        Accepted(s)}

\* The letters the plugboard runs draw their leads from.
PlugLetters == {ALPHABET[i] : i \in 1..NumPlugLetters}

(* ------------------------------- state --------------------------------- *)

VARIABLES
    settings,   \* the arguments the machine was constructed from
    machine,    \* the Machine instance
    last,       \* the last operation: its name, argument, result, positions before
    prev,       \* the operation before it: its name and positions before
    nOps,       \* operations since construction
    typed,      \* key presses that stepped, since construction
    manual,     \* whether rotateRotor was called from outside pressKey
    phase,      \* which run this is, and how far it has come
    plain,      \* round trip: the text typed into the first machine
    cipher,     \* round trip: what the first machine returned
    decoded,    \* round trip: what the second machine returned
    board,      \* a Plugboard on its own
    probe,      \* the last letter sent through board, once and twice
    raised,     \* the exception the last operation raised, or "None"
    catalog     \* the module's ROTOR_OPTIONS dictionary

vars == <<settings, machine, last, prev, nOps, typed, manual, phase,
          plain, cipher, decoded, board, probe, raised, catalog>>

NoOp == [op |-> "init", key |-> "", out |-> "", before |-> <<>>]

NoPrev == [op |-> "init", before |-> <<>>]

NoProbe == [x |-> "", once |-> "", twice |-> ""]

\* A machine just constructed from settings s.
Fresh(s) ==
    /\ settings = s
    /\ machine = Machine(s)
    /\ last = NoOp
    /\ prev = NoPrev
    /\ nOps = 0
    /\ typed = 0
    /\ manual = FALSE

Idle ==
    /\ plain = <<>>
    /\ cipher = <<>>
    /\ decoded = <<>>
    /\ board = Plugboard(<<>>)
    /\ probe = NoProbe
    /\ raised = "None"
    /\ catalog = ROTOR_OPTIONS

Init ==
    /\ \E s \in SettingsSet : Fresh(s)
    /\ phase = "run"
    /\ Idle

\* One call of pressKey on the machine, recorded in last and prev.
Press(key, rotate_first, op) ==
    \E r \in {pressKey(machine, key, rotate_first)} :
        /\ machine' = r.machine
        /\ prev' = [op |-> last.op, before |-> last.before]
        /\ last' = [op |-> op, key |-> key, out |-> r.signal,
                    before |-> Positions(machine)]
        /\ nOps' = nOps + 1
        /\ typed' = IF rotate_first THEN typed + 1 ELSE typed
        /\ UNCHANGED <<settings, manual>>

\* How many operations a run makes: a run over every key is shorter.
OpsBound == IF phase = "keys" THEN MaxKeyOps ELSE MaxOps

\* machine.pressKey(key)
PressKey(key) ==
    /\ phase \in {"run", "keys"}
    /\ nOps < OpsBound
    /\ Press(key, TRUE, "pressKey")
    /\ UNCHANGED <<phase, plain, cipher, decoded, board, probe,
                   raised, catalog>>

\* machine.pressKey(key, rotate_first=False)
PressKeyFrozen(key) ==
    /\ phase \in {"run", "keys"}
    /\ nOps < OpsBound
    /\ Press(key, FALSE, "pressKeyFrozen")
    /\ UNCHANGED <<phase, plain, cipher, decoded, board, probe,
                   raised, catalog>>

\* machine.rotateRotor(slot), called by the user
RotateRotor(slot) ==
    /\ phase \in {"run", "keys"}
    /\ nOps < OpsBound
    /\ machine' = rotateRotor(machine, slot)
    /\ prev' = [op |-> last.op, before |-> last.before]
    /\ last' = [op |-> "rotateRotor", key |-> "", out |-> "",
                before |-> Positions(machine), slot |-> slot]
    /\ nOps' = nOps + 1
    /\ manual' = TRUE
    /\ UNCHANGED <<settings, typed, phase, plain, cipher, decoded, board, probe,
                   raised, catalog>>

\* Runs of a machine from every setting, over a few keys.
Next ==
    \/ \E key \in Keys : PressKey(key)
    \/ \E key \in Keys : PressKeyFrozen(key)
    \/ \E slot \in 0..(machine.num_rotors - 1) : RotateRotor(slot)

Spec == Init /\ [][Next]_vars

\* Shorter runs of a machine from the full settings, over every key.
InitKeys ==
    /\ \E s \in CipherSettings : Accepted(s) /\ Fresh(s)
    /\ phase = "keys"
    /\ Idle

NextKeys ==
    \/ \E key \in Letters : PressKey(key)
    \/ \E key \in Letters : PressKeyFrozen(key)
    \/ \E slot \in 0..(machine.num_rotors - 1) : RotateRotor(slot)

SpecKeys == InitKeys /\ [][NextKeys]_vars

(* ----------------------------- round trip ------------------------------ *)

\* A first machine encodes a text letter by letter (Machine.encode's loop).
InitRoundTrip ==
    /\ \E s \in SettingsSet : Fresh(s)
    /\ phase = "encode"
    /\ Idle

EncodeKey(key) ==
    /\ phase = "encode"
    /\ Len(plain) < MaxLen
    /\ Press(key, TRUE, "pressKey")
    /\ plain' = Append(plain, key)
    /\ cipher' = Append(cipher, last'.out)
    /\ UNCHANGED <<phase, decoded, board, probe,
                   raised, catalog>>

\* A second machine is constructed from the same settings.
Rebuild ==
    /\ phase = "encode"
    /\ machine' = Machine(settings)
    /\ last' = NoOp
    /\ prev' = NoPrev
    /\ nOps' = 0
    /\ typed' = 0
    /\ phase' = "decode"
    /\ UNCHANGED <<settings, manual, plain, cipher, decoded, board, probe,
                   raised, catalog>>

\* The second machine encodes what the first returned, letter by letter.
DecodeKey ==
    /\ phase = "decode"
    /\ Len(decoded) < Len(cipher)
    /\ Press(cipher[Len(decoded) + 1], TRUE, "pressKey")
    /\ decoded' = Append(decoded, last'.out)
    /\ UNCHANGED <<phase, plain, cipher, board, probe,
                   raised, catalog>>

NextRoundTrip ==
    \/ \E key \in TextLetters : EncodeKey(key)
    \/ Rebuild
    \/ DecodeKey

SpecRoundTrip == InitRoundTrip /\ [][NextRoundTrip]_vars

(* --------------------------- plugboard alone --------------------------- *)

InitPlug ==
    /\ Fresh(Settings(<<"I", "II", "III">>, "B", <<"01", "01", "01">>,
                       <<"A", "A", "A">>, <<>>, <<>>))
    /\ phase = "plug"
    /\ Idle

\* board.addLead(mapping), for a pair of letters no earlier lead uses.
AddLead(mapping) ==
    /\ phase = "plug"
    /\ probe = NoProbe
    /\ Cardinality(ReassignedKeys(board)) < 2 * MaxLeads
    /\ mapping[1] # mapping[2]
    /\ {mapping[1], mapping[2]} \cap ReassignedKeys(board) = {}
    /\ board' = Plugboard_addLead(board, mapping)
    /\ UNCHANGED <<settings, machine, last, prev, nOps, typed, manual, phase,
                   plain, cipher, decoded, probe, raised, catalog>>

\* board.encode(x), and board.encode of the result.
PlugEncode(x) ==
    /\ phase = "plug"
    /\ probe = NoProbe
    /\ probe' = [x |-> x,
                 once |-> EncodingDict_encode(board, x),
                 twice |-> EncodingDict_encode(board,
                                               EncodingDict_encode(board, x))]
    /\ UNCHANGED <<settings, machine, last, prev, nOps, typed, manual, phase,
                   plain, cipher, decoded, board, raised, catalog>>

NextPlug ==
    \/ \E a, b \in PlugLetters : AddLead(<<a, b>>)
    \/ \E x \in Letters : PlugEncode(x)

SpecPlug == InitPlug /\ [][NextPlug]_vars

(* ------------------------------- encode -------------------------------- *)

\* One machine is given a first string, then a second one.
InitEncode ==
    /\ \E s \in EncodeSettings : Fresh(s)
    /\ phase = "first"
    /\ Idle

\* machine.encode(string): plain and cipher collect what the calls that
\* returned were given and gave back.
Encode(string) ==
    /\ phase \in {"first", "second"}
    /\ raised = "None"
    /\ \E r \in {encode(machine, string)} :
          /\ machine' = r.machine
          /\ raised' = r.raised
          /\ last' = [op |-> "encode", key |-> string, out |-> r.result,
                      before |-> Positions(machine)]
          /\ plain' = IF r.raised = "None" THEN plain \o string ELSE plain
          /\ cipher' = cipher \o r.result
          /\ typed' = typed + r.machine.rotors[1].num_rotations
                             - machine.rotors[1].num_rotations
    /\ prev' = [op |-> last.op, before |-> last.before]
    /\ nOps' = nOps + 1
    /\ phase' = IF phase = "first" THEN "second" ELSE "done"
    /\ UNCHANGED <<settings, manual, decoded, board, probe, catalog>>

NextEncode ==
    \E string \in Strings(EncodeLetters \cup OtherChars, MaxText) :
        Encode(string)

SpecEncode == InitEncode /\ [][NextEncode]_vars

(* -------------------------- several machines --------------------------- *)

\* machine is an instance in use; fresh instances are made beside it.
InitPurity ==
    /\ \E s \in PuritySettings : Fresh(s)
    /\ phase = "others"
    /\ Idle

\* A key press on the instance in use.
OtherPressKey(key) ==
    /\ phase = "others"
    /\ nOps < MaxOtherOps
    /\ machine' = pressKey(machine, key, TRUE).machine
    /\ nOps' = nOps + 1
    /\ typed' = typed + 1
    /\ UNCHANGED <<settings, last, prev, manual, phase, plain, cipher,
                   decoded, board, probe, raised, catalog>>

\* getReflector().swapLeads(pair) on the instance in use.
OtherSwapLeads(pair) ==
    /\ phase = "others"
    /\ nOps < MaxOtherOps
    /\ machine' = [machine EXCEPT !.reflector = swapLeads(@, pair)]
    /\ catalog' = ROTOR_OPTIONS_after(catalog, machine'.reflector)
    /\ nOps' = nOps + 1
    /\ UNCHANGED <<settings, last, prev, typed, manual, phase, plain, cipher,
                   decoded, board, probe, raised>>

\* updateReflectorLeads([pair]) on the instance in use.
OtherUpdateReflectorLeads(pair) ==
    /\ phase = "others"
    /\ nOps < MaxOtherOps
    /\ machine' = [machine EXCEPT
                      !.reflector = Reflector_addLeads(@, <<pair>>)]
    /\ catalog' = ROTOR_OPTIONS_after(catalog, machine'.reflector)
    /\ nOps' = nOps + 1
    /\ UNCHANGED <<settings, last, prev, typed, manual, phase, plain, cipher,
                   decoded, board, probe, raised>>

\* Another instance is made and used from then on.
OtherMachine(s) ==
    /\ phase = "others"
    /\ nOps < MaxOtherOps
    /\ machine' = Machine_in(catalog, s)
    /\ settings' = s
    /\ nOps' = nOps + 1
    /\ typed' = 0
    /\ UNCHANGED <<last, prev, manual, phase, plain, cipher, decoded, board,
                   probe, raised, catalog>>

\* Machine(**s).encode(string) on an instance made for the call.
FreshEncode(s, string) ==
    /\ phase = "others"
    /\ \E r \in {encode(Machine_in(catalog, s), string)} :
          /\ last' = [op |-> "freshEncode", key |-> string, out |-> r.result,
                      before |-> <<>>, args |-> s]
          /\ raised' = r.raised
    /\ phase' = "observed"
    /\ UNCHANGED <<settings, machine, prev, nOps, typed, manual, plain,
                   cipher, decoded, board, probe, catalog>>

NextPurity ==
    \/ \E key \in PurityLetters : OtherPressKey(key)
    \/ \E a, b \in RewireLetters : OtherSwapLeads(<<a, b>>)
    \/ \E a, b \in RewireLetters : OtherUpdateReflectorLeads(<<a, b>>)
    \/ \E s \in PuritySettings : OtherMachine(s)
    \/ \E s \in PuritySettings :
          \E string \in [1..MaxText -> PurityLetters] :
              FreshEncode(s, string)

SpecPurity == InitPurity /\ [][NextPurity]_vars

(* ---------------------------- construction ----------------------------- *)

\* machine is an instance made earlier; the calls make new objects.
InitConstruct ==
    /\ Fresh(Settings(<<"I", "II", "III">>, "B", <<"01", "01", "01">>,
                       <<"A", "A", "A">>, <<>>, <<>>))
    /\ phase = "construct"
    /\ Idle

\* machine = Machine(...): the name is bound if the call returns.
NewMachine(a) ==
    /\ phase = "construct"
    /\ raised' = Machine_raises(a)
    /\ IF raised' = "None"
       THEN /\ machine' = Machine_in(catalog, WithDefaults(a))
            /\ settings' = WithDefaults(a)
       ELSE UNCHANGED <<machine, settings>>
    /\ last' = [op |-> "Machine", key |-> "", out |-> "", before |-> <<>>,
                args |-> a]
    /\ prev' = [op |-> last.op, before |-> last.before]
    /\ nOps' = 0
    /\ typed' = 0
    /\ phase' = "constructed"
    /\ UNCHANGED <<manual, plain, cipher, decoded, board, probe, catalog>>

\* PlugLead(mapping), for a string or a list of characters.
NewPlugLead(isstr, mapping) ==
    /\ phase = "construct"
    /\ raised' = PlugLead_raises(isstr, mapping)
    /\ last' = [op |-> "PlugLead", key |-> mapping, out |-> "",
                before |-> <<>>, isstr |-> isstr]
    /\ prev' = [op |-> last.op, before |-> last.before]
    /\ phase' = "constructed"
    /\ UNCHANGED <<settings, machine, nOps, typed, manual, plain, cipher,
                   decoded, board, probe, catalog>>

NextConstruct ==
    \/ \E a \in Calls : NewMachine(a)
    \/ \E isstr \in BOOLEAN : \E mapping \in LeadArguments :
          NewPlugLead(isstr, mapping)

SpecConstruct == InitConstruct /\ [][NextConstruct]_vars

(* ------------------------- reflector rewiring --------------------------- *)

\* The reflector of a machine is rewired, call after call.
InitReflector ==
    /\ \E s \in PuritySettings : Fresh(s)
    /\ phase = "rewire"
    /\ Idle

\* getReflector().swapLeads(pair)
SwapLeads(pair) ==
    /\ phase = "rewire"
    /\ nOps < MaxSwaps
    /\ machine' = [machine EXCEPT !.reflector = swapLeads(@, pair)]
    /\ last' = [op |-> "swapLeads", key |-> pair, out |-> "",
                before |-> machine.reflector]
    /\ prev' = [op |-> last.op, before |-> last.before]
    /\ nOps' = nOps + 1
    /\ UNCHANGED <<settings, typed, manual, phase, plain, cipher,
                   decoded, board, probe, raised, catalog>>

\* getReflector().makeSwaps(pairs)
MakeSwaps(pairs) ==
    /\ phase = "rewire"
    /\ nOps < MaxSwaps
    /\ machine' = [machine EXCEPT !.reflector = makeSwaps(@, pairs)]
    /\ last' = [op |-> "makeSwaps", key |-> pairs, out |-> "",
                before |-> machine.reflector]
    /\ prev' = [op |-> last.op, before |-> last.before]
    /\ nOps' = nOps + 1
    /\ UNCHANGED <<settings, typed, manual, phase, plain, cipher,
                   decoded, board, probe, raised, catalog>>

NextReflector ==
    \/ \E a, b \in SwapLetters : SwapLeads(<<a, b>>)
    \/ \E pairs \in SwapLists : MakeSwaps(pairs)

SpecReflector == InitReflector /\ [][NextReflector]_vars

(* ------------------------- calls that may fail ------------------------- *)

InitCalls ==
    /\ \E s \in CallSettings : Fresh(s)
    /\ phase = "calls"
    /\ Idle

\* machine.pressKey(key, rotate_first), whatever the key is.
PressKeyCall(key, rotate_first) ==
    /\ phase = "calls"
    /\ nOps < MaxCalls
    /\ \E r \in {pressKey_str(machine, key, rotate_first)} :
          /\ machine' = r.machine
          /\ raised' = r.raised
          /\ last' = [op |-> "pressKey", key |-> key, out |-> r.signal,
                      before |-> Positions(machine),
                      rotate_first |-> rotate_first]
          /\ typed' = IF Positions(r.machine) # Positions(machine)
                      THEN typed + 1 ELSE typed
    /\ prev' = [op |-> last.op, before |-> last.before]
    /\ nOps' = nOps + 1
    /\ UNCHANGED <<settings, manual, phase, plain, cipher, decoded, board,
                   probe, catalog>>

\* machine.rotateRotor(slot), whatever the slot is.
RotateRotorCall(slot) ==
    /\ phase = "calls"
    /\ nOps < MaxCalls
    /\ raised' = rotateRotor_raises(machine, slot)
    /\ machine' = IF raised' = "None" THEN rotateRotor(machine, slot)
                  ELSE machine
    /\ last' = [op |-> "rotateRotor", key |-> <<>>, out |-> "",
                before |-> Positions(machine), slot |-> slot]
    /\ prev' = [op |-> last.op, before |-> last.before]
    /\ nOps' = nOps + 1
    /\ manual' = TRUE
    /\ UNCHANGED <<settings, typed, phase, plain, cipher, decoded, board,
                   probe, catalog>>

NextCalls ==
    \/ \E key \in KeyStrings : \E rotate_first \in BOOLEAN :
          PressKeyCall(key, rotate_first)
    \/ \E slot \in 0..machine.num_rotors : RotateRotorCall(slot)

SpecCalls == InitCalls /\ [][NextCalls]_vars

(* --------------------------- the rotor's shift -------------------------- *)

InitShift ==
    /\ \E s \in ShiftSettings : Fresh(s)
    /\ phase = "shift"
    /\ Idle

\* rotor._shift_in(x) on the right rotor, and rotor._unshift_out of the
\* result.
ShiftProbe(x) ==
    /\ phase = "shift"
    /\ probe' = [x |-> x,
                 once |-> shift_in(getRotor(machine, 0), x),
                 twice |-> unshift_out(getRotor(machine, 0),
                                       shift_in(getRotor(machine, 0), x))]
    /\ UNCHANGED <<settings, machine, last, prev, nOps, typed, manual, phase,
                   plain, cipher, decoded, board, raised, catalog>>

\* machine.rotateRotor(0) between two probes.
ShiftStep ==
    /\ phase = "shift"
    /\ nOps < MaxShiftSteps
    /\ machine' = rotateRotor(machine, 0)
    /\ nOps' = nOps + 1
    /\ probe' = NoProbe
    /\ UNCHANGED <<settings, last, prev, typed, manual, phase, plain, cipher,
                   decoded, board, raised, catalog>>

NextShift ==
    \/ \E x \in Letters : ShiftProbe(x)
    \/ ShiftStep

SpecShift == InitShift /\ [][NextShift]_vars

(* ----------------------- rotating to a position ------------------------ *)

\* The statements of rotateToPosition's loop are steps of their own: phase
\* is "idle" between calls, "while" at the loop's test, "body" before the
\* call of rotate, and "returned" when the call is over. last.key says
\* whose loop it is: the machine's right rotor, the machine's reflector, or
\* a reflector under construction (held in probe).
InitPosition ==
    /\ \E s \in PuritySettings : Fresh(s)
    /\ phase = "idle"
    /\ Idle

\* The object the running call rotates.
Subject ==
    CASE last.key = "rotor"     -> getRotor(machine, 0)
      [] last.key = "reflector" -> machine.reflector
      [] last.key = "new"       -> probe

\* machine.getRotor(0).rotateToPosition(target), or
\* machine.getReflector().rotateToPosition(target): the target is in
\* range(26), so the call reaches its loop.
CallRotateToPosition(on, target) ==
    /\ phase = "idle"
    /\ nOps < MaxPositionings
    /\ last' = [op |-> "rotateToPosition", key |-> on, out |-> "",
                before |-> Positions(machine), target |-> target]
    /\ phase' = "while"
    /\ nOps' = nOps + 1
    /\ UNCHANGED <<settings, machine, prev, typed, manual, plain, cipher,
                   decoded, board, probe, raised, catalog>>

\* Reflector(name, position): Rotor.__init__ builds the tables at position
\* 0 and calls rotateToPosition(position) if the position is not 0.
NewReflector(name, position) ==
    /\ phase = "idle"
    /\ nOps < MaxPositionings
    /\ probe' = Reflector(name)
    /\ last' = [op |-> "Reflector", key |-> "new", out |-> "",
                before |-> Positions(machine), target |-> position]
    /\ phase' = IF position # 0 THEN "while" ELSE "returned"
    /\ nOps' = nOps + 1
    /\ UNCHANGED <<settings, machine, prev, typed, manual, plain, cipher,
                   decoded, board, raised, catalog>>

\* while self._position != target
LoopTest ==
    /\ phase = "while"
    /\ phase' = IF Subject.position # last.target THEN "body" ELSE "returned"
    /\ UNCHANGED <<settings, machine, last, prev, nOps, typed, manual, plain,
                   cipher, decoded, board, probe, raised, catalog>>

\* self.rotate(): Rotor.rotate on a rotor, Reflector.rotate on a reflector.
LoopBody ==
    /\ phase = "body"
    /\ machine' = CASE last.key = "rotor" ->
                         [machine EXCEPT !.rotors[1] = rotate(@)]
                    [] last.key = "reflector" ->
                         [machine EXCEPT !.reflector = Reflector_rotate(@)]
                    [] last.key = "new" -> machine
    /\ probe' = IF last.key = "new" THEN Reflector_rotate(probe) ELSE probe
    /\ phase' = "while"
    /\ UNCHANGED <<settings, last, prev, nOps, typed, manual, plain, cipher,
                   decoded, board, raised, catalog>>

\* The call is over and the caller goes on.
Return ==
    /\ phase = "returned"
    /\ phase' = "idle"
    /\ UNCHANGED <<settings, machine, last, prev, nOps, typed, manual, plain,
                   cipher, decoded, board, probe, raised, catalog>>

NextPosition ==
    \/ \E on \in {"rotor", "reflector"} : \E target \in Targets :
          CallRotateToPosition(on, target)
    \/ \E name \in DOMAIN REFLECTOR_OPTIONS : \E position \in Targets :
          NewReflector(name, position)
    \/ LoopTest
    \/ LoopBody
    \/ Return

SpecPosition == InitPosition /\ [][NextPosition]_vars

\* A call that has started keeps running: the interpreter executes the
\* next statement of the loop, and hands control back at the end.
SpecPositionLive ==
    /\ SpecPosition
    /\ WF_vars(LoopTest)
    /\ WF_vars(LoopBody)
    /\ WF_vars(Return)

(* ----------------------------- properties ------------------------------ *)

\* The position of the rotor in a slot now, and before the last operation.
Pos(slot) == getRotor(machine, slot).position

Before(slot) == last.before[slot + 1]

\* One position further, modulo the alphabet.
Stepped(p) == (p + 1) % N

\* Whether the rotor in a slot is at its notch when it stands at position p.
NotchAt(slot, p) == isAtNotch([getRotor(machine, slot) EXCEPT !.position = p])

\* The position a slot was configured to start from.
StartPosition(slot) ==
    convertPosition(Reverse(settings.position_setting)[slot + 1])

\* The machine as it stood before the last operation.
MachineBefore ==
    [machine EXCEPT !.rotors =
        [i \in 1..Len(machine.rotors) |->
            [machine.rotors[i] EXCEPT !.position = last.before[i]]]]

\* C1: round trip. What a second machine, built from the same settings,
\* returns for the first machine's output is the text that was typed into
\* the first machine, letter for letter.
RoundTrip ==
    phase = "decode" =>
        /\ Len(cipher) = Len(plain)
        /\ \A i \in 1..Len(decoded) : decoded[i] = plain[i]

RoundTripReached ==
    /\ phase = "decode"
    /\ Len(plain) >= 2
    /\ decoded = plain
    /\ cipher # plain
    /\ settings.plugboard_mappings # <<>>
    /\ settings.reflector_mapping_swaps # <<>>

\* C2: non-identity. A key press never returns the key that was pressed,
\* in any state reached by key presses, for any key.
NonIdentity ==
    last.op = "pressKey" => last.out # last.key

NonIdentityReached ==
    /\ last.op = "pressKey"
    /\ prev.op = "pressKey"
    /\ last.out # last.key
    /\ settings.plugboard_mappings # <<>>
    /\ settings.reflector_mapping_swaps # <<>>

\* C3: double step. When two key presses follow each other and, before the
\* first, rotor 0 is at its notch and rotor 1 is one position before its
\* own notch (both rotors notched), rotor 1 advances by one on the first
\* press and by one again on the second, rotor 2 advances by one on the
\* second, and rotor 0 advances by one on both.
DoubleStepCase ==
    /\ prev.op = "pressKey"
    /\ last.op = "pressKey"
    /\ isNotched(getRotor(machine, 0))
    /\ isNotched(getRotor(machine, 1))
    /\ NotchAt(0, prev.before[1])
    /\ NotchAt(1, Stepped(prev.before[2]))

DoubleStep ==
    DoubleStepCase =>
        /\ Before(1) = Stepped(prev.before[2])
        /\ Pos(1) = Stepped(Before(1))
        /\ Pos(2) = Stepped(Before(2))
        /\ Before(0) = Stepped(prev.before[1])
        /\ Pos(0) = Stepped(Before(0))

DoubleStepReached ==
    /\ DoubleStepCase
    /\ Pos(1) = (prev.before[2] + 2) % N
    /\ Pos(2) = Stepped(prev.before[3])

\* C4: the rightmost rotor advances by exactly one position, modulo 26, on
\* every key press, whatever the notch states are; after n key presses from
\* the start position p0 it is at (p0 + n) mod 26.
RightRotorAlwaysSteps ==
    /\ last.op = "pressKey" => Pos(0) = Stepped(Before(0))
    /\ ~manual => Pos(0) = (StartPosition(0) + typed) % N

RightRotorAlwaysStepsReached ==
    /\ last.op = "pressKey"
    /\ ~manual
    /\ typed >= 2
    /\ NotchAt(1, Before(1))
    /\ ~NotchAt(0, Before(0))
    /\ Pos(0) = Stepped(Before(0))
    /\ Pos(0) = (StartPosition(0) + typed) % N

\* C5: on a key press rotor 1 advances by exactly one position if, before
\* the press, rotor 0 or rotor 1 is at its notch; otherwise it stays.
MiddleRotorRule ==
    last.op = "pressKey" =>
        IF NotchAt(0, Before(0)) \/ NotchAt(1, Before(1))
        THEN Pos(1) = Stepped(Before(1))
        ELSE Pos(1) = Before(1)

MiddleRotorRuleReached ==
    /\ last.op = "pressKey"
    /\ ~NotchAt(0, Before(0))
    /\ NotchAt(1, Before(1))
    /\ Pos(1) = Stepped(Before(1))

\* C6: on a key press rotor 2 advances by exactly one position if rotor 1
\* was at its notch before the press, and stays otherwise; that rotor 1
\* arrives at its notch during the press does not move rotor 2.
LeftRotorRule ==
    last.op = "pressKey" =>
        IF NotchAt(1, Before(1))
        THEN Pos(2) = Stepped(Before(2))
        ELSE Pos(2) = Before(2)

LeftRotorRuleReached ==
    /\ last.op = "pressKey"
    /\ ~NotchAt(1, Before(1))
    /\ NotchAt(1, Pos(1))
    /\ Pos(1) = Stepped(Before(1))
    /\ Pos(2) = Before(2)

Plug(m, ch) == EncodingDict_encode(m.plugboard, ch)

R(m, slot, ch) == encode_right_to_left(getRotor(m, slot), ch)

L(m, slot, ch) == encode_left_to_right(getRotor(m, slot), ch)

Refl(m, ch) == encode_right_to_left(m.reflector, ch)

Composed(m, x) ==
    IF m.num_rotors = 3
    THEN Plug(m, L(m, 0, L(m, 1, L(m, 2,
            Refl(m, R(m, 2, R(m, 1, R(m, 0, Plug(m, x)))))))))
    ELSE Plug(m, L(m, 0, L(m, 1, L(m, 2, L(m, 3,
            Refl(m, R(m, 3, R(m, 2, R(m, 1, R(m, 0, Plug(m, x)))))))))))

SignalPath ==
    last.op = "pressKey" => last.out = Composed(machine, last.key)

SignalPathReached ==
    /\ last.op = "pressKey"
    /\ machine.num_rotors = 4
    /\ settings.plugboard_mappings # <<>>
    /\ last.out = Composed(machine, last.key)
    /\ last.out # Composed(MachineBefore, last.key)

\* C9: frozen-rotor involution. With stepping disabled, pressing the letter
\* that a key press returned gives back the key that was pressed.
FrozenInvolution ==
    last.op = "pressKeyFrozen" =>
        pressKey(machine, last.out, FALSE).signal = last.key

FrozenInvolutionReached ==
    /\ last.op = "pressKeyFrozen"
    /\ prev.op = "pressKey"
    /\ last.out # last.key
    /\ settings.plugboard_mappings # <<>>
    /\ settings.reflector_mapping_swaps # <<>>
    /\ pressKey(machine, last.out, FALSE).signal = last.key

\* C10: plugboard involution. On a plugboard built from pairwise-disjoint
\* pairs of letters (or from none), encoding a letter twice gives the letter.
PlugboardInvolution ==
    /\ probe # NoProbe => probe.twice = probe.x
    /\ \A x \in Letters :
          EncodingDict_encode(board, EncodingDict_encode(board, x)) = x

PlugboardInvolutionReached ==
    /\ probe # NoProbe
    /\ Cardinality(ReassignedKeys(board)) >= 4
    /\ probe.once # probe.x
    /\ probe.twice = probe.x

\* The machine after n steps of the rotors from the right.
RECURSIVE StepTimes(_, _)
StepTimes(self, n) ==
    IF n = 0 THEN self ELSE StepTimes(rotateRotor(self, 0), n - 1)

\* C11: encode is sequential and stateful. The strings two successive
\* encode calls on one machine return, one after the other, are what a
\* fresh machine with the same settings returns for the two inputs joined;
\* a call returns one letter per letter it was given; and the rotors stand
\* after the calls where that many key presses leave them.
SequentialEncode ==
    (phase \in {"second", "done"} /\ raised = "None") =>
        /\ cipher = encode(Machine(settings), plain).result
        /\ Len(last.out) = Len(last.key)
        /\ machine.rotors = StepTimes(Machine(settings), Len(plain)).rotors

SequentialEncodeReached ==
    /\ phase = "done"
    /\ raised = "None"
    /\ last.key # <<>>
    /\ Len(last.key) < Len(plain)
    /\ Len(cipher) >= 3
    /\ Pos(1) # StartPosition(1)

PositionalConstruction ==
    LET n == machine.num_rotors
    IN  \A i \in 1..n :
            LET rotor == machine.rotors[n - i + 1]
                pos   == settings.position_setting[i]
                ring  == settings.ring_setting[i]
            IN  /\ Len(settings.rotors) = n
                /\ rotor.name = settings.rotors[i]
                /\ rotor.ring_offset = convertPosition(ring)
                /\ convertPosition(getRingSetting(machine)[i]) =
                       convertPosition(ring)
                /\ (ring \in DOMAIN IntOf /\ ring \notin {Digit[k] : k \in 1..10}) =>
                       getRingSetting(machine)[i] = ring
                /\ nOps = 0 =>
                      /\ rotor.position = convertPosition(pos)
                      /\ convertPosition(getPositionSetting(machine)[i]) =
                             convertPosition(pos)
                      /\ pos \in Letters =>
                             getPositionSetting(machine)[i] = pos

PositionalConstructionReached ==
    /\ nOps = 0
    /\ Cardinality({Pos(slot) : slot \in 0..2}) = 3
    /\ Cardinality({machine.rotors[i].ring_offset : i \in 1..3}) = 3
    /\ \E slot \in 0..2 :
          /\ getRotor(machine, slot).notch # NoNotch
          /\ Pos(slot) > AlphabetIndex(getRotor(machine, slot).notch)

\* C14: range invariant. In every state a machine the constructor accepted
\* reaches by key presses and manual rotations, every rotor position and
\* every ring offset is one of 0..25.
RangeInvariant ==
    \A i \in 1..Len(machine.rotors) :
        /\ machine.rotors[i].position \in 0..(N - 1)
        /\ machine.rotors[i].ring_offset \in 0..(N - 1)

\* C15: Machine() with no arguments constructs successfully. It gives a
\* machine of three Dummy rotors at positions A A A with ring settings
\* 01 01 01, reflector A and an empty plugboard, and every key pressed on it
\* comes back as reflector A's image of the key.
DefaultMachine ==
    (last.op = "Machine" /\ last.args.given = {}) =>
        /\ raised = "None"
        /\ machine.num_rotors = 3
        /\ \A i \in 1..Len(machine.rotors) :
              /\ machine.rotors[i].name = "Dummy"
              /\ machine.rotors[i].position = 0
              /\ machine.rotors[i].ring_offset = 0
        /\ machine.reflector.name = "A"
        /\ machine.plugboard = EncodingDict
        /\ \A key \in Letters :
              pressKey(machine, key, TRUE).signal =
                  REFLECTOR_OPTIONS["A"].mapping_str[AlphabetIndex(key) + 1]

\* C17: PlugLead(pair) fails with an input error for every argument that is
\* not a string of exactly two distinct letters of the alphabet; 'AA' is
\* rejected.
LeadRejected ==
    LET pair == last.key
        two_distinct_letters ==
            /\ last.isstr
            /\ Len(pair) = 2
            /\ pair[1] \in Letters
            /\ pair[2] \in Letters
            /\ pair[1] # pair[2]
    IN  (last.op = "PlugLead" /\ ~two_distinct_letters) => raised # "None"

\* C18: constructing a machine fails unless every rotor name is an entry of
\* the rotor catalog (Dummy, Beta, Gamma, I to V) and the reflector name is
\* an entry of the reflector catalog (A, B, C): a reflector entry is not
\* accepted as a rotor, nor a rotor entry as a reflector.
NamesChecked ==
    LET rotor_names == DOMAIN ROTOR_OPTIONS \ DOMAIN REFLECTOR_OPTIONS
    IN  (last.op = "Machine" /\ raised = "None") =>
            /\ \A i \in 1..Len(settings.rotors) :
                  settings.rotors[i] \in rotor_names
            /\ settings.reflector \in DOMAIN REFLECTOR_OPTIONS
            /\ settings.reflector \notin rotor_names

\* C16: reflector rewiring keeps a permutation. From any catalog reflector,
\* after any sequence of swapLeads and makeSwaps calls with pairs of
\* letters, the reflector's right-to-left table is a bijection of the
\* alphabet.
ReflectorPermutation ==
    /\ DOMAIN machine.reflector.right = Letters
    /\ {machine.reflector.right[ch] : ch \in Letters} = Letters

ReflectorPermutationReached ==
    /\ phase = "rewire"
    /\ nOps >= 2
    /\ settings.reflector_mapping_swaps = <<>>
    /\ Cardinality({ch \in Letters :
                       machine.reflector.right[ch] #
                           Rotor(machine.reflector.name).right[ch]}) >= 6

\* C19: encode(text) fails with an input error, and returns nothing,
\* whenever the text holds at least one character that is not one of the 26
\* upper-case letters.
EncodeRejects ==
    (/\ last.op = "encode"
     /\ \E i \in 1..Len(last.key) : last.key[i] \notin Letters) =>
        /\ raised = "ValueError"
        /\ last.out = <<>>

EncodeRejectsReached ==
    /\ last.op = "encode"
    /\ phase = "done"
    /\ Len(last.key) = 2
    /\ last.key[1] \in Letters
    /\ last.key[2] \in LowerCase
    /\ cipher # <<>>
    /\ raised = "ValueError"

\* C20: manual rotation cascades. For every valid slot s, if the rotor in
\* slot s is at its notch when rotateRotor(s) is called, the rotor in slot
\* s + 1 is rotated as well as the rotor in slot s, for s = 1 and above as
\* for s = 0.
ManualCascade ==
    (/\ last.op = "rotateRotor"
     /\ last.slot + 1 < machine.num_rotors
     /\ NotchAt(last.slot, Before(last.slot))) =>
        /\ Pos(last.slot) = Stepped(Before(last.slot))
        /\ Pos(last.slot + 1) = Stepped(Before(last.slot + 1))

\* C21: no partial failure. When encode(text) fails because a character of
\* the text is invalid, the rotors stand where they stood before the call:
\* the valid characters before the invalid one leave no rotor advanced.
NoPartialFailure ==
    (last.op = "encode" /\ raised # "None") =>
        Positions(machine) = last.before

\* C22: validation precedes stepping. pressKey called with a key that is not
\* exactly one letter of A-Z, the empty string and a piece of the alphabet
\* such as 'AB' included, raises an error without having stepped any rotor.
ValidationPrecedesStepping ==
    (/\ last.op = "pressKey"
     /\ ~(Len(last.key) = 1 /\ last.key[1] \in Letters)) =>
        /\ raised # "None"
        /\ Positions(machine) = last.before

\* C29: rotor count is not hard-coded. A machine the constructor accepted
\* with one or two rotors accepts a key press: pressKey returns a letter,
\* rotor 0 has stepped, and a second rotor has stepped exactly when rotor 0
\* or the second rotor itself stood at its notch.
SmallMachinePress ==
    (/\ last.op = "pressKey"
     /\ last.rotate_first
     /\ Len(last.key) = 1
     /\ last.key[1] \in Letters
     /\ machine.num_rotors < 3) =>
        /\ raised = "None"
        /\ last.out \in Letters
        /\ Pos(0) = Stepped(Before(0))
        /\ machine.num_rotors = 2 =>
               Pos(1) = IF NotchAt(0, Before(0)) \/ NotchAt(1, Before(1))
                        THEN Stepped(Before(1))
                        ELSE Before(1)

\* The machine with the positions and rotation counters of the rotors in
\* slots 0-2 blanked: what a key press has to leave alone.
WithoutPositions(self) ==
    [self EXCEPT !.rotors =
        [i \in 1..Len(self.rotors) |->
            IF i <= 3
            THEN [self.rotors[i] EXCEPT !.position = 0, !.num_rotations = 0]
            ELSE self.rotors[i]]]

\* C23: frame of a key press. A key press changes nothing but the positions
\* and rotation counters of the rotors in slots 0-2: ring offsets, wiring
\* tables, the reflector with its position, the plugboard and the number
\* and order of the rotors are as before.
KeyPressFrame ==
    [][last'.op \in {"pressKey", "pressKeyFrozen"} =>
          /\ WithoutPositions(machine') = WithoutPositions(machine)
          /\ machine'.reflector.position = 0]_vars

KeyPressFrameReached ==
    /\ last.op = "pressKey"
    /\ machine.num_rotors = 4
    /\ Pos(2) # Before(2)
    /\ Pos(3) = Before(3)
    /\ getRotor(machine, 1).ring_offset # 0
    /\ WithoutPositions(machine) = WithoutPositions(Machine(settings))

\* A wiring that joins the letters in pairs: every letter leads to another
\* one, which leads back.
TwoWay(table) ==
    \A ch \in Letters : table[ch] # ch /\ table[table[ch]] = ch

\* C24 as stated: swapLeads on a pair a, b sets the right-to-left output of
\* a to the previous output of b and the output of b to the previous output
\* of a, and leaves the left-to-right table alone.
SwapLeadsExchange ==
    (last.op = "swapLeads") =>
        /\ machine.reflector.right[last.key[1]] =
               last.before.right[last.key[2]]
        /\ machine.reflector.right[last.key[2]] =
               last.before.right[last.key[1]]
        /\ machine.reflector.left = last.before.left

\* C24, amended: on a reflector whose wiring joins the letters in pairs,
\* swapLeads on two different letters a, b that are not joined to each
\* other gives a the previous output of b and b the previous output of a,
\* makes those two outputs lead back to a and b, and leaves every other
\* letter alone; on two letters joined to each other, or on one letter
\* twice, it changes nothing. The left-to-right table is never modified.
SwapLeadsRewires ==
    (last.op = "swapLeads" /\ TwoWay(last.before.right)) =>
        LET a   == last.key[1]
            b   == last.key[2]
            old == last.before.right
            new == machine.reflector.right
        IN  /\ machine.reflector.left = last.before.left
            /\ IF a = b \/ old[a] = b
               THEN new = old
               ELSE /\ new[a] = old[b]
                    /\ new[b] = old[a]
                    /\ new[old[b]] = a
                    /\ new[old[a]] = b
                    /\ \A ch \in Letters \ {a, b, old[a], old[b]} :
                           new[ch] = old[ch]

SwapLeadsRewiresReached ==
    /\ last.op = "swapLeads"
    /\ prev.op = "swapLeads"
    /\ TwoWay(last.before.right)
    /\ last.key[1] # last.key[2]
    /\ last.before.right[last.key[1]] # last.key[2]
    /\ last.before.right # Rotor(machine.reflector.name).right
    /\ machine.reflector.right[last.key[1]] # last.before.right[last.key[1]]

\* C25: rotor shift round trip. For every letter x, every position and
\* every ring offset, _unshift_out(_shift_in(x)) is x, and both results are
\* letters of the alphabet.
ShiftRoundTrip ==
    (phase = "shift" /\ probe # NoProbe) =>
        /\ probe.once \in Letters
        /\ probe.twice \in Letters
        /\ probe.twice = probe.x

ShiftRoundTripReached ==
    /\ phase = "shift"
    /\ probe # NoProbe
    /\ nOps = 1
    /\ getRotor(machine, 0).position = 3
    /\ getRotor(machine, 0).ring_offset = 25
    /\ probe.x = "B"
    /\ probe.once = "F"

\* C26: the middle rotor never rests on its notch. After at least one
\* stepping key press of a machine with notched rotors in slots 0 and 1
\* (and no rotation by hand), rotor 1 at its notch means rotor 0 is exactly
\* one position past its own notch; and rotor 1 is not at its notch both
\* before and after a press that follows another one.
MiddleRotorNeverRests ==
    (/\ typed >= 1
     /\ ~manual
     /\ isNotched(getRotor(machine, 0))
     /\ isNotched(getRotor(machine, 1))) =>
        /\ isAtNotch(getRotor(machine, 1)) =>
               NotchAt(0, (Pos(0) - 1) % N)
        /\ (typed >= 2 /\ last.op = "pressKey") =>
               ~(isAtNotch(getRotor(machine, 1)) /\ NotchAt(1, Before(1)))

MiddleRotorNeverRestsReached ==
    /\ typed >= 2
    /\ ~manual
    /\ last.op = "pressKey"
    /\ isNotched(getRotor(machine, 0))
    /\ isNotched(getRotor(machine, 1))
    /\ NotchAt(1, Before(1))
    /\ ~isAtNotch(getRotor(machine, 1))
    /\ NotchAt(0, (Before(0) - 1) % N)
    /\ Pos(2) # Before(2)

\* C27: the reflector's right-to-left wiring is a bijection over the
\* alphabet in every reachable state, also after updateReflectorLeads has
\* been called with two-letter pairs.
ReflectorBijection ==
    /\ \A ch \in Letters : machine.reflector.right[ch] \in Letters
    /\ Cardinality({machine.reflector.right[ch] : ch \in Letters}) = N

\* Positioning a rotor returns: the loop of rotateToPosition on the
\* machine's right rotor comes to its end.
RotorPositioningReturns ==
    (phase = "while" /\ last.key = "rotor") ~> (phase = "returned")

\* C28: positioning a reflector terminates. Constructing a Reflector with a
\* position in 0..25, or calling rotateToPosition on a reflector with a
\* target in 0..25, eventually returns.
ReflectorPositioningReturns ==
    (phase = "while" /\ last.key \in {"reflector", "new"}) ~>
        (phase = "returned")

====
